---- MODULE Spec2Model ----
(***************************************************************************)
(* Model of segmentation/eval_utils.py: the evaluation metrics (iou,       *)
(* precision, recall, iou_acc, iou_bbox), the metric factory get_metrics   *)
(* and the report helper format_results.                                   *)
(*                                                                         *)
(* Numbers.  Heatmap scores and thresholds are fixed-point tenths          *)
(* (6 stands for 0.6).  Ground truth and binarized cells are 0 / 1.        *)
(* K.epsilon() is the exact quantity 1 / EpsInv; a denominator "n + eps"   *)
(* is the pair [int |-> n, eps |-> 1], a per-instance ratio is the pair    *)
(* [num, den], and a batch mean is kept in exact form (the sum grouped by  *)
(* denominator, and the batch size), so no rounding is introduced.         *)
(* Report values given to format_results are fixed-point thousandths.      *)
(***************************************************************************)
EXTENDS Integers, Sequences, FiniteSets, TLC

VARIABLES y_true, y_pred, threshold, heatmap_threshold, input_dim,
          names, scalars, metrics, called, locals, ret

vars == <<y_true, y_pred, threshold, heatmap_threshold, input_dim,
          names, scalars, metrics, called, locals, ret>>

inputs == <<y_true, y_pred, threshold, heatmap_threshold, input_dim,
            names, scalars>>

(***************************************************************************)
(* Bounds of the model.                                                    *)
(***************************************************************************)
MaxBatch == 2
MaxCells == 2
MaxOnes == 3
MaxDim == 3
MaxHigh == 2
MaxThresholds == 2
MaxNames == 2
MaxShapeBatch == 4

(***************************************************************************)
(* Program constants.                                                      *)
(***************************************************************************)
\* K.epsilon() is 1e-7, i.e. 1 / EpsInv.
EpsInv == 10000000
\* The threshold 0.6 of the module's own run, in tenths.
MainThreshold == 6

\* Thresholds (tenths) given to get_metrics.
Thresholds == {MainThreshold - 2, MainThreshold}
\* Heatmap scores (tenths) of a cell: exactly at the main threshold, above it.
PredLow == MainThreshold
PredHigh == MainThreshold + 1

----------------------------------------------------------------------------
(***************************************************************************)
(* Tensors: a 2-D tensor is a sequence of rows (batch major), a 3-D tensor *)
(* a sequence of grids.  Elementwise binary operations broadcast as the    *)
(* backend does: a dimension of size 1 is stretched, other sizes must      *)
(* agree.                                                                  *)
(***************************************************************************)
\* The element of a one-element set.  Only({e(x) : x \in {v}}) is e on the
\* value of v, computed once: every tensor operation below takes the values
\* of its operands this way, as a call of the backend does.
Only(S) == CHOOSE r \in S : TRUE

Max(a, b) == IF a >= b THEN a ELSE b
Min(a, b) == IF a <= b THEN a ELSE b

Shape(t) == <<Len(t), Len(t[1])>>

Compatible(m, n) == m = n \/ m = 1 \/ n = 1

Broadcastable(a, b) ==
    /\ Compatible(Shape(a)[1], Shape(b)[1])
    /\ Compatible(Shape(a)[2], Shape(b)[2])

At(a, i, j) == a[IF Len(a) = 1 THEN 1 ELSE i][IF Len(a[1]) = 1 THEN 1 ELSE j]

BRows(a, b) == Max(Len(a), Len(b))
BCols(a, b) == Max(Len(a[1]), Len(b[1]))

Mul(a, b) ==
    Only({[i \in 1..BRows(x, y) |-> [j \in 1..BCols(x, y) |-> At(x, i, j) * At(y, i, j)]] :
            <<x, y>> \in {<<a, b>>}})

Add(a, b) ==
    Only({[i \in 1..BRows(x, y) |-> [j \in 1..BCols(x, y) |-> At(x, i, j) + At(y, i, j)]] :
            <<x, y>> \in {<<a, b>>}})

Sub(a, b) ==
    Only({[i \in 1..BRows(x, y) |-> [j \in 1..BCols(x, y) |-> At(x, i, j) - At(y, i, j)]] :
            <<x, y>> \in {<<a, b>>}})

\* K.cast(K.greater(a, c), "float32") for a scalar c.
Greater(a, c) ==
    Only({[i \in 1..Len(x) |-> [j \in 1..Len(x[i]) |-> IF x[i][j] > c THEN 1 ELSE 0]] :
            x \in {a}})

RECURSIVE SumSeq(_)
SumSeq(s) == IF s = <<>> THEN 0 ELSE s[1] + SumSeq(Tail(s))

\* K.sum(a, axis=1) of a 2-D tensor: one number per instance.
SumAxis1(a) == Only({[i \in 1..Len(x) |-> SumSeq(x[i])] : x \in {a}})

(***************************************************************************)
(* Exact arithmetic with epsilon.                                          *)
(***************************************************************************)
Epsilon == [int |-> 0, eps |-> 1]
One == [int |-> 1, eps |-> 0]

\* K.epsilon() + a, elementwise over a vector of counts.
AddEpsilon(a) ==
    Only({[i \in 1..Len(v) |-> [int |-> Epsilon.int + v[i], eps |-> Epsilon.eps]] :
            v \in {a}})

\* num / den, elementwise: a vector of ratios.
Divide(num, den) ==
    Only({[i \in 1..Len(n) |-> [num |-> n[i], den |-> d[i]]] : <<n, d>> \in {<<num, den>>}})

\* The sign of a denominator int + eps / EpsInv.
Positive(d) == d.int * EpsInv + d.eps > 0

\* K.cast(K.greater(values, p / q), "float32"), elementwise over ratios.
GreaterRatio(values, p, q) ==
    Only({[i \in 1..Len(v) |->
              IF v[i].num * q * EpsInv > p * (v[i].den.int * EpsInv + v[i].den.eps)
              THEN 1 ELSE 0] : v \in {values}})

\* A vector of plain numbers as ratios over 1.
AsRatios(a) == Only({[i \in 1..Len(v) |-> [num |-> v[i], den |-> One]] : v \in {a}})

RECURSIVE SumNumOver(_, _)
SumNumOver(values, d) ==
    IF values = <<>> THEN 0
    ELSE (IF values[1].den = d THEN values[1].num ELSE 0) + SumNumOver(Tail(values), d)

\* K.mean(values): the exact sum, grouped by denominator, over the batch size.
Mean(values) ==
    Only({[sum |-> {<<d, SumNumOver(v, d)>> :
                      d \in {v[i].den : i \in {k \in 1..Len(v) : v[k].num # 0}}},
           n |-> Len(v)] : v \in {values}})

Error == [err |-> TRUE, val |-> <<>>]
Ok(v) == [err |-> FALSE, val |-> v]
NoLocals == [num |-> <<>>, den |-> <<>>, mask |-> <<>>]

----------------------------------------------------------------------------
(***************************************************************************)
(* The metrics.  Each metric has a "parts" operator (the per-instance      *)
(* numerator and denominator it forms) and the function itself (the mean   *)
(* of the ratios, or Error where the backend rejects the shapes).          *)
(***************************************************************************)
VecAdd(a, b) == Only({[i \in 1..Len(u) |-> u[i] + v[i]] : <<u, v>> \in {<<a, b>>}})

\* Variant: the denominator without epsilon.
iou_parts_no_epsilon(gt, pred_scores, t) ==
    LET pred == Greater(pred_scores, t)
        intersection == Mul(gt, pred)
        union == Greater(Add(gt, pred), 0)
    IN  [num |-> SumAxis1(intersection),
         den |-> Only({[i \in 1..Len(u) |-> [int |-> u[i], eps |-> 0]] :
                         u \in {SumAxis1(union)}}),
         mask |-> <<>>]

iou_parts(gt, pred_scores, t) ==
    LET pred == Greater(pred_scores, t)
        intersection == Mul(gt, pred)
        union == Greater(Add(gt, pred), 0)
    IN  [num |-> SumAxis1(intersection),
         den |-> AddEpsilon(SumAxis1(union)),
         mask |-> <<>>]

iou(gt, pred_scores, t) ==
    IF ~Broadcastable(gt, pred_scores) THEN Error
    ELSE Only({Ok(Mean(Divide(p.num, p.den))) : p \in {iou_parts(gt, pred_scores, t)}})

\* Variant: every predicted-positive cell counted as a false positive.
precision_parts_fp_all_predicted(gt, pred_scores, t) ==
    LET pred == Greater(pred_scores, t)
        tp == SumAxis1(Mul(gt, pred))
        fp == SumAxis1(pred)
    IN  [num |-> tp, den |-> AddEpsilon(VecAdd(tp, fp)), mask |-> <<>>]

precision_parts(gt, pred_scores, t) ==
    LET pred == Greater(pred_scores, t)
        tp == SumAxis1(Mul(gt, pred))
        fp == SumAxis1(Greater(Sub(pred, gt), 0))
    IN  [num |-> tp, den |-> AddEpsilon(VecAdd(tp, fp)), mask |-> <<>>]

precision(gt, pred_scores, t) ==
    IF ~Broadcastable(gt, pred_scores) THEN Error
    ELSE Only({Ok(Mean(Divide(p.num, p.den))) : p \in {precision_parts(gt, pred_scores, t)}})

recall_parts(gt, pred_scores, t) ==
    LET pred == Greater(pred_scores, t)
        tp == SumAxis1(Mul(gt, pred))
        fn == SumAxis1(Greater(Sub(gt, pred), 0))
    IN  [num |-> tp, den |-> AddEpsilon(VecAdd(tp, fn)), mask |-> <<>>]

recall(gt, pred_scores, t) ==
    IF ~Broadcastable(gt, pred_scores) THEN Error
    ELSE Only({Ok(Mean(Divide(p.num, p.den))) : p \in {recall_parts(gt, pred_scores, t)}})

\* Variant: the IoU values averaged without the 0.5 cut.
iou_acc_no_cut(gt, pred_scores, t) ==
    IF ~Broadcastable(gt, pred_scores) THEN Error
    ELSE Only({Ok(Mean(Divide(p.num, p.den))) : p \in {iou_parts(gt, pred_scores, t)}})

iou_acc(gt, pred_scores, t) ==
    IF ~Broadcastable(gt, pred_scores) THEN Error
    ELSE LET iou_values ==
                 Only({Divide(p.num, p.den) : p \in {iou_parts(gt, pred_scores, t)}})
             acc == GreaterRatio(iou_values, 1, 2)
         IN  Ok(Mean(AsRatios(acc)))

(***************************************************************************)
(* iou_bbox: the mask rebuilt from the row and column projections.         *)
(***************************************************************************)
RECURSIVE Flatten(_)
Flatten(x) == IF x = <<>> THEN <<>> ELSE x[1] \o Flatten(Tail(x))

\* K.reshape(x, (-1, d, d)) is possible iff the element count divides by d*d.
ReshapeOk(x, d) == (Len(x) * Len(x[1])) % (d * d) = 0

Reshape3(x, d) ==
    Only({[b \in 1..(Len(flat) \div (d * d)) |->
              [i \in 1..d |-> [j \in 1..d |-> flat[(b - 1) * d * d + (i - 1) * d + j]]]] :
            flat \in {Flatten(x)}})

\* K.cast(K.greater(K.sum(grid, axis=1, keepdims=True), 0)): shape (batch, 1, d).
ColumnActive(grid, d) ==
    Only({[b \in 1..Len(g) |->
              <<[j \in 1..d |-> IF SumSeq([i \in 1..d |-> g[b][i][j]]) > 0 THEN 1 ELSE 0]>>] :
            g \in {grid}})

\* K.cast(K.greater(K.sum(grid, axis=2, keepdims=True), 0)): shape (batch, d, 1).
RowActive(grid, d) ==
    Only({[b \in 1..Len(g) |-> [i \in 1..d |-> <<IF SumSeq(g[b][i]) > 0 THEN 1 ELSE 0>>]] :
            g \in {grid}})

\* K.repeat_elements(a, rep, axis=1) and (axis=2) of a 3-D tensor.
RepeatAxis1(a, rep) ==
    Only({[b \in 1..Len(x) |-> [i \in 1..(Len(x[b]) * rep) |-> x[b][((i - 1) \div rep) + 1]]] :
            x \in {a}})

RepeatAxis2(a, rep) ==
    Only({[b \in 1..Len(x) |->
              [i \in 1..Len(x[b]) |->
                  [j \in 1..(Len(x[b][i]) * rep) |-> x[b][i][((j - 1) \div rep) + 1]]]] :
            x \in {a}})

\* mask_vert * mask_horiz of two 3-D tensors of one shape.
Mul3(a, c) ==
    Only({[b \in 1..Len(x) |->
              [i \in 1..Len(x[b]) |-> [j \in 1..Len(x[b][i]) |-> x[b][i][j] * y[b][i][j]]]] :
            <<x, y>> \in {<<a, c>>}})

\* K.reshape(a, (-1, d * d)) of a 3-D tensor of shape (batch, d, d).
Reshape2(a, d) ==
    Only({[b \in 1..Len(x) |->
              [c \in 1..(d * d) |-> x[b][((c - 1) \div d) + 1][((c - 1) % d) + 1]]] :
            x \in {a}})

\* Variant: the mask of the active rows alone.
bbox_mask_rows_only(pred, d) ==
    LET grid == Reshape3(pred, d)
        vert == RowActive(grid, d)
        mask_vert == RepeatAxis2(vert, d)
    IN  Reshape2(mask_vert, d)

\* Lines 141-149: the mask of a binarized prediction, in shape (-1, d*d).
bbox_mask(pred, d) ==
    LET grid == Reshape3(pred, d)
        horiz == ColumnActive(grid, d)
        mask_horiz == RepeatAxis1(horiz, d)
        vert == RowActive(grid, d)
        mask_vert == RepeatAxis2(vert, d)
        mask == Mul3(mask_vert, mask_horiz)
    IN  Reshape2(mask, d)

\* Lines 150-152 on the mask.
MaskParts(gt, mask) ==
    LET intersection == Mul(gt, mask)
        union == Greater(Add(gt, mask), 0)
    IN  [num |-> SumAxis1(intersection),
         den |-> AddEpsilon(SumAxis1(union)),
         mask |-> mask]

iou_bbox_parts(gt, pred_scores, t, d) ==
    Only({MaskParts(gt, mask) : mask \in {bbox_mask(Greater(pred_scores, t), d)}})

iou_bbox(gt, pred_scores, t, d) ==
    IF ~ReshapeOk(pred_scores, d) THEN Error
    ELSE Only({IF ~Broadcastable(gt, mask) THEN Error
               ELSE Only({Ok(Mean(Divide(p.num, p.den))) : p \in {MaskParts(gt, mask)}}) :
                 mask \in {bbox_mask(Greater(pred_scores, t), d)}})

----------------------------------------------------------------------------
(***************************************************************************)
(* get_metrics.  A function value is a record: fn names the code it runs,  *)
(* name is its __name__, env the variables it closed over.  A metric       *)
(* returned by get_metrics is the inner lambda: it holds the f and t it    *)
(* was applied to.                                                         *)
(***************************************************************************)
Digits == <<"0", "1", "2", "3", "4", "5", "6", "7", "8", "9">>

RECURSIVE IntText(_)
IntText(n) == IF n < 10 THEN Digits[n + 1] ELSE IntText(n \div 10) \o Digits[(n % 10) + 1]

\* str(thresh) of a float with one decimal, held in tenths: 6 is "0.6".
Str(t) == IntText(t \div 10) \o "." \o Digits[(t % 10) + 1]

\* The list of line 23; iou_bbox_metric is the lambda of lines 21-22.
MetricFuncs(d) ==
    << [fn |-> "iou", name |-> "iou", env |-> <<>>],
       [fn |-> "precision", name |-> "precision", env |-> <<>>],
       [fn |-> "recall", name |-> "recall", env |-> <<>>],
       [fn |-> "iou_acc", name |-> "iou_acc", env |-> <<>>],
       [fn |-> "iou_bbox_metric", name |-> "iou_bbox", env |-> <<d>>] >>

\* f(gt, pred, t) for a function value f.
CallFunc(f, gt, pred_scores, t) ==
    CASE f.fn = "iou" -> iou(gt, pred_scores, t)
      [] f.fn = "precision" -> precision(gt, pred_scores, t)
      [] f.fn = "recall" -> recall(gt, pred_scores, t)
      [] f.fn = "iou_acc" -> iou_acc(gt, pred_scores, t)
      [] f.fn = "iou_bbox_metric" -> iou_bbox(gt, pred_scores, t, f.env[1])

\* Lines 25-27: the closure over (f, t) and its name.
MakeMetric(f, t) == [name |-> f.name \o "_" \o Str(t), f |-> f, t |-> t]

\* metric(gt, pred) for a metric returned by get_metrics.
CallMetric(metric, gt, pred_scores) == CallFunc(metric.f, gt, pred_scores, metric.t)

RECURSIVE ThresholdLoop(_, _, _)
ThresholdLoop(acc, f, T) ==
    IF T = <<>> THEN acc
    ELSE ThresholdLoop(Append(acc, MakeMetric(f, T[1])), f, Tail(T))

RECURSIVE FuncLoop(_, _, _)
FuncLoop(acc, F, T) ==
    IF F = <<>> THEN acc
    ELSE FuncLoop(ThresholdLoop(acc, F[1], T), Tail(F), T)

\* Variant: thresholds in the outer loop, metric kinds in the inner loop.
RECURSIVE KindLoop(_, _, _)
KindLoop(acc, F, t) ==
    IF F = <<>> THEN acc
    ELSE KindLoop(Append(acc, MakeMetric(F[1], t)), Tail(F), t)

RECURSIVE ThresholdOuterLoop(_, _, _)
ThresholdOuterLoop(acc, F, T) ==
    IF T = <<>> THEN acc
    ELSE ThresholdOuterLoop(KindLoop(acc, F, T[1]), F, Tail(T))

get_metrics_thresholds_outer(d, T) == ThresholdOuterLoop(<<>>, MetricFuncs(d), T)

\* Variant: the lambda reads the loop variable thresh when it is called (late
\* binding), so every metric runs with the last threshold.
get_metrics_late_binding(d, T) ==
    Only({[p \in 1..Len(ms) |-> [name |-> ms[p].name, f |-> ms[p].f, t |-> T[Len(T)]]] :
            ms \in {FuncLoop(<<>>, MetricFuncs(d), T)}})

get_metrics(d, T) == FuncLoop(<<>>, MetricFuncs(d), T)

(***************************************************************************)
(* format_results: '%s: %2.3f' per zipped pair, joined by ', '.            *)
(***************************************************************************)
\* '%2.3f' of a value held in thousandths: 2500 is "2.500".
Format3(x) ==
    IntText(x \div 1000) \o "." \o Digits[((x \div 100) % 10) + 1]
        \o Digits[((x \div 10) % 10) + 1] \o Digits[(x % 10) + 1]

\* zip(names, scalars): pairs up to the shorter length.
Zip(a, b) == [i \in 1..Min(Len(a), Len(b)) |-> <<a[i], b[i]>>]

RECURSIVE Join(_, _)
Join(sep, res) ==
    IF res = <<>> THEN ""
    ELSE IF Len(res) = 1 THEN res[1]
    ELSE res[1] \o sep \o Join(sep, Tail(res))

format_results(ns, xs) ==
    LET res == [i \in 1..Len(Zip(ns, xs)) |->
                   Zip(ns, xs)[i][1] \o ": " \o Format3(Zip(ns, xs)[i][2])]
    IN  Ok(Join(", ", res))

----------------------------------------------------------------------------
(***************************************************************************)
(* Input families.                                                         *)
(***************************************************************************)
RECURSIVE SubsetsUpTo(_, _)
SubsetsUpTo(S, k) ==
    IF k = 0 THEN {{}}
    ELSE LET smaller == SubsetsUpTo(S, k - 1)
         IN  smaller \cup {P \cup {x} : <<P, x>> \in smaller \X S}

\* b x n tensors over {lo, hi} with at most k cells equal to hi.
SparseTensors(b, n, lo, hi, k) ==
    {[i \in 1..b |-> [j \in 1..n |-> IF <<i, j>> \in P THEN hi ELSE lo]] :
        P \in SubsetsUpTo((1..b) \X (1..n), k)}

RowOf(c, d) == ((c - 1) \div d) + 1
ColOf(c, d) == ((c - 1) % d) + 1

\* One flattened d x d grid: hi on rows r1..r2 x columns c1..c2, lo elsewhere.
RectGrid(d, r1, r2, c1, c2, lo, hi) ==
    [c \in 1..(d * d) |->
        IF RowOf(c, d) \in r1..r2 /\ ColOf(c, d) \in c1..c2 THEN hi ELSE lo]

\* Single-instance tensors whose hi cells form a solid rectangle, or none.
RectTensors(d, lo, hi) ==
    {<<RectGrid(d, r1, r2, c1, c2, lo, hi)>> :
        <<r1, r2, c1, c2>> \in {q \in (1..d) \X (1..d) \X (1..d) \X (1..d) :
                                  q[1] <= q[2] /\ q[3] <= q[4]}}
    \cup {<<[c \in 1..(d * d) |-> lo]>>}

\* Single-instance tensors whose hi cells form a rectangle from the top-left
\* corner, or none.
AnchoredTensors(d, lo, hi) ==
    {<<RectGrid(d, 1, r2, 1, c2, lo, hi)>> : <<r2, c2>> \in (1..d) \X (1..d)}
    \cup {<<[c \in 1..(d * d) |-> lo]>>}

NotCalled == [fn |-> "none", idx |-> 0]

InitOutputs ==
    /\ metrics = <<>>
    /\ called = NotCalled
    /\ locals = NoLocals
    /\ ret = Ok(<<>>)

NoFactoryInputs ==
    /\ heatmap_threshold = <<>>
    /\ names = <<>>
    /\ scalars = <<>>

\* Batches of small instances, ground truth and scores of one shape.
InitBatch ==
    \E b \in 1..MaxBatch, n \in 1..MaxCells :
        /\ y_true \in SparseTensors(b, n, 0, 1, MaxOnes)
        /\ y_pred \in SparseTensors(b, n, PredLow, PredHigh, MaxOnes)
        /\ input_dim = 1

\* One d x d heatmap against a ground-truth box.
InitGrid ==
    \E d \in 1..MaxDim :
        /\ y_pred \in RectTensors(d, PredLow, PredHigh)
                        \cup SparseTensors(1, d * d, PredLow, PredHigh, MaxHigh)
        /\ y_true \in RectTensors(d, 0, 1)
        /\ input_dim = d

\* One d x d heatmap and ground truth, each a box from the top-left corner.
InitAnchored ==
    \E d \in 1..MaxDim :
        /\ y_pred \in AnchoredTensors(d, PredLow, PredHigh)
        /\ y_true \in AnchoredTensors(d, 0, 1)
        /\ input_dim = d

Init ==
    /\ InitBatch \/ InitAnchored
    /\ threshold = MainThreshold
    /\ NoFactoryInputs
    /\ InitOutputs

(***************************************************************************)
(* The calls.  A run makes one call on its inputs.                         *)
(***************************************************************************)
CallIou ==
    /\ called.fn = "none"
    /\ called' = [fn |-> "iou", idx |-> 0]
    /\ ret' = iou(y_true, y_pred, threshold)
    /\ locals' = IF ret'.err THEN NoLocals ELSE iou_parts(y_true, y_pred, threshold)
    /\ UNCHANGED <<inputs, metrics>>

CallPrecision ==
    /\ called.fn = "none"
    /\ called' = [fn |-> "precision", idx |-> 0]
    /\ ret' = precision(y_true, y_pred, threshold)
    /\ locals' = IF ret'.err THEN NoLocals ELSE precision_parts(y_true, y_pred, threshold)
    /\ UNCHANGED <<inputs, metrics>>

CallRecall ==
    /\ called.fn = "none"
    /\ called' = [fn |-> "recall", idx |-> 0]
    /\ ret' = recall(y_true, y_pred, threshold)
    /\ locals' = IF ret'.err THEN NoLocals ELSE recall_parts(y_true, y_pred, threshold)
    /\ UNCHANGED <<inputs, metrics>>

CallIouAcc ==
    /\ called.fn = "none"
    /\ called' = [fn |-> "iou_acc", idx |-> 0]
    /\ ret' = iou_acc(y_true, y_pred, threshold)
    /\ locals' = IF ret'.err THEN NoLocals ELSE iou_parts(y_true, y_pred, threshold)
    /\ UNCHANGED <<inputs, metrics>>

CallIouBbox ==
    /\ called.fn = "none"
    /\ called' = [fn |-> "iou_bbox", idx |-> 0]
    /\ ret' = iou_bbox(y_true, y_pred, threshold, input_dim)
    /\ locals' = IF ret'.err THEN NoLocals
                 ELSE iou_bbox_parts(y_true, y_pred, threshold, input_dim)
    /\ UNCHANGED <<inputs, metrics>>

Next ==
    \/ CallIou
    \/ CallPrecision
    \/ CallRecall
    \/ CallIouAcc
    \/ CallIouBbox

Spec == Init /\ [][Next]_vars

(***************************************************************************)
(* The bounding-box runs: iou and iou_bbox on one d x d heatmap.           *)
(***************************************************************************)
InitBbox ==
    /\ InitGrid
    /\ threshold = MainThreshold
    /\ NoFactoryInputs
    /\ InitOutputs

NextBbox ==
    \/ CallIou
    \/ CallIouBbox

SpecBbox == InitBbox /\ [][NextBbox]_vars

(***************************************************************************)
(* The factory runs: get_metrics, then one of the returned metrics is      *)
(* called on a d x d heatmap.                                              *)
(***************************************************************************)
SeqsUpTo(S, n) == UNION {[1..k -> S] : k \in 0..n}

InitFactory ==
    /\ InitAnchored
    /\ heatmap_threshold \in SeqsUpTo(Thresholds, MaxThresholds)
    /\ threshold = MainThreshold
    /\ names = <<>>
    /\ scalars = <<>>
    /\ InitOutputs

GetMetrics ==
    /\ called.fn = "none"
    /\ called' = [fn |-> "get_metrics", idx |-> 0]
    /\ metrics' = get_metrics(input_dim, heatmap_threshold)
    /\ ret' = Ok(<<>>)
    /\ UNCHANGED <<inputs, locals>>

InvokeMetric(p) ==
    /\ called.fn = "get_metrics"
    /\ p \in 1..Len(metrics)
    /\ called' = [fn |-> "metric", idx |-> p]
    /\ ret' = CallMetric(metrics[p], y_true, y_pred)
    /\ UNCHANGED <<inputs, locals, metrics>>

NextFactory ==
    \/ GetMetrics
    \/ \E p \in 1..(5 * MaxThresholds) : InvokeMetric(p)

SpecFactory == InitFactory /\ [][NextFactory]_vars

(***************************************************************************)
(* The report runs: format_results on names and values.                    *)
(***************************************************************************)
NameSet == {"a", "b"}
ScalarSet == {0, 1000, 2500}

InitFormat ==
    /\ names \in SeqsUpTo(NameSet, MaxNames)
    /\ scalars \in SeqsUpTo(ScalarSet, MaxNames)
    /\ y_true = <<<<0>>>>
    /\ y_pred = <<<<PredLow>>>>
    /\ input_dim = 1
    /\ threshold = MainThreshold
    /\ heatmap_threshold = <<>>
    /\ InitOutputs

FormatResults ==
    /\ called.fn = "none"
    /\ called' = [fn |-> "format_results", idx |-> 0]
    /\ ret' = format_results(names, scalars)
    /\ UNCHANGED <<inputs, locals, metrics>>

SpecFormat == InitFormat /\ [][FormatResults]_vars

(***************************************************************************)
(* The shape runs: every metric on ground truth and scores of any two      *)
(* shapes, and any input_dim.                                              *)
(***************************************************************************)
InitShapes ==
    /\ \E bt \in 1..MaxShapeBatch, nt \in 1..MaxCells,
          bp \in 1..MaxShapeBatch, np \in 1..MaxCells :
          /\ y_true \in SparseTensors(bt, nt, 0, 1, 1)
          /\ y_pred \in SparseTensors(bp, np, PredLow, PredHigh, 1)
    /\ input_dim \in 1..MaxDim
    /\ threshold = MainThreshold
    /\ NoFactoryInputs
    /\ InitOutputs

SpecShapes == InitShapes /\ [][Next]_vars

----------------------------------------------------------------------------
(***************************************************************************)
(* Vocabulary of the properties, stated on the inputs directly (sets of    *)
(* cells), not through the tensor operations of the code.                  *)
(***************************************************************************)
SameShape == Len(y_true) = Len(y_pred) /\ Len(y_true[1]) = Len(y_pred[1])

Instances == 1..Len(y_pred)
Cells == 1..Len(y_pred[1])

\* Cells of instance i that are predicted positive / are ground truth.
PredCells(i) == {j \in Cells : y_pred[i][j] > threshold}
TrueCells(i) == {j \in Cells : y_true[i][j] = 1}

InterCount(i) == Cardinality(PredCells(i) \cap TrueCells(i))
UnionCount(i) == Cardinality(PredCells(i) \cup TrueCells(i))

MetricCall == called.fn \in {"iou", "precision", "recall", "iou_acc", "iou_bbox"}

\* The mean of a batch of n whole numbers that add up to total.
WholeMean(total, n) ==
    [sum |-> IF total = 0 THEN {} ELSE {<<One, total>>}, n |-> n]

----------------------------------------------------------------------------
\* C5. A perfect, nonempty match (gt equal to the binarized prediction cell
\* for cell, at least one positive cell per instance): iou, precision and
\* recall each form the per-instance ratio n / (n + eps), n the number of
\* positive cells, and return the mean of these; iou_acc returns exactly 1.
PerfectMatch ==
    /\ SameShape
    /\ \A i \in Instances : PredCells(i) = TrueCells(i) /\ TrueCells(i) # {}

PerfectMean ==
    [sum |-> {<<[int |-> k, eps |-> 1],
                k * Cardinality({i \in Instances : Cardinality(TrueCells(i)) = k})>> :
                 k \in {Cardinality(TrueCells(i)) : i \in Instances}},
     n |-> Len(y_pred)]

C5_PerfectMatch ==
    PerfectMatch =>
        /\ called.fn \in {"iou", "precision", "recall"} =>
              /\ ~ret.err
              /\ \A i \in Instances :
                    /\ locals.num[i] = Cardinality(TrueCells(i))
                    /\ locals.den[i] = [int |-> Cardinality(TrueCells(i)), eps |-> 1]
              /\ ret.val = PerfectMean
        /\ called.fn = "iou_acc" => ret = Ok(WholeMean(Len(y_pred), Len(y_pred)))

C5_Witness ==
    /\ called.fn = "precision"
    /\ PerfectMatch
    /\ y_true = <<<<1, 0>>, <<1, 1>>>>
    /\ ret.val.sum = {<<[int |-> 1, eps |-> 1], 1>>, <<[int |-> 2, eps |-> 1], 2>>}

\* C6. iou_acc returns (number of instances with 2 * I > U) / batch size,
\* I and U the intersection and union counts of the instance: an instance
\* with IoU exactly one half (2 * I = U) counts as 0.
CorrectInstances == {i \in Instances : 2 * InterCount(i) > UnionCount(i)}

C6_IouAccStrictHalf ==
    (called.fn = "iou_acc" /\ SameShape) =>
        ret = Ok(WholeMean(Cardinality(CorrectInstances), Len(y_pred)))

C6_Witness ==
    /\ called.fn = "iou_acc"
    /\ Len(y_pred) = 2
    /\ InterCount(1) = 1 /\ UnionCount(1) = 2
    /\ InterCount(2) = 1 /\ UnionCount(2) = 1
    /\ ret.val = [sum |-> {<<One, 1>>}, n |-> 2]

\* C10. An instance with all-zero gt and every prediction at or below the
\* threshold has numerator 0 and denominator epsilon alone in iou, precision
\* and recall, and a batch of such instances scores exactly 0; the
\* denominator of every ratio a metric forms is strictly positive.
EmptyInstance(i) == TrueCells(i) = {} /\ PredCells(i) = {}

C10_EpsilonDenominator ==
    /\ (called.fn \in {"iou", "precision", "recall"} /\ SameShape) =>
          /\ \A i \in Instances :
                EmptyInstance(i) => locals.num[i] = 0 /\ locals.den[i] = Epsilon
          /\ (\A i \in Instances : EmptyInstance(i)) =>
                ret = Ok(WholeMean(0, Len(y_pred)))
    /\ (MetricCall /\ ~ret.err) =>
          \A i \in DOMAIN locals.den : Positive(locals.den[i])

C10_Witness ==
    /\ called.fn = "recall"
    /\ Len(y_pred) = 2
    /\ \A i \in Instances : EmptyInstance(i)
    /\ y_pred[1][1] = threshold
    /\ locals.den = <<Epsilon, Epsilon>>
    /\ ret.val = [sum |-> {}, n |-> 2]

----------------------------------------------------------------------------
(***************************************************************************)
(* Properties of the bounding-box runs (one d x d heatmap).                *)
(***************************************************************************)
\* Predicted-positive cells of the heatmap as (row, column) pairs.
PredGrid ==
    {<<RowOf(c, input_dim), ColOf(c, input_dim)>> : c \in PredCells(1)}

PredRows == {q[1] : q \in PredGrid}
PredCols == {q[2] : q \in PredGrid}

SetMin(S) == CHOOSE x \in S : \A y \in S : x <= y
SetMax(S) == CHOOSE x \in S : \A y \in S : x >= y

\* The smallest axis-aligned rectangle covering the predicted-positive cells.
BoundingBox ==
    IF PredGrid = {} THEN {}
    ELSE (SetMin(PredRows)..SetMax(PredRows)) \X (SetMin(PredCols)..SetMax(PredCols))

\* The cells a flattened mask marks, as (row, column) pairs.
MaskGrid(mask) ==
    {<<RowOf(c, input_dim), ColOf(c, input_dim)>> :
        c \in {k \in 1..Len(mask[1]) : mask[1][k] = 1}}

\* C3. With at least one predicted-positive cell, the mask iou_bbox builds is
\* the smallest axis-aligned rectangle covering the predicted-positive cells.
C3_MaskIsBoundingBox ==
    (called.fn = "iou_bbox" /\ ~ret.err /\ PredGrid # {}) =>
        MaskGrid(locals.mask) = BoundingBox

\* C4. When the binarized prediction is a solid rectangle, iou_bbox returns
\* what iou returns on the same inputs.
SolidRectangle == PredGrid = BoundingBox

C4_RectangleUnchanged ==
    (called.fn = "iou_bbox" /\ SolidRectangle) =>
        /\ ret = iou(y_true, y_pred, threshold)
        /\ MaskGrid(locals.mask) = PredGrid

C4_Witness ==
    /\ called.fn = "iou_bbox"
    /\ input_dim = 3
    /\ SolidRectangle
    /\ PredGrid = {<<2, 2>>, <<2, 3>>}
    /\ InterCount(1) = 1 /\ UnionCount(1) = 3
    /\ ret.val = [sum |-> {<<[int |-> 3, eps |-> 1], 1>>}, n |-> 1]

----------------------------------------------------------------------------
(***************************************************************************)
(* Properties of the factory runs.                                         *)
(***************************************************************************)
KindNames == <<"iou", "precision", "recall", "iou_acc", "iou_bbox">>

\* The text of a threshold as Python prints it.
ThresholdText(t) == CASE t = 4 -> "0.4" [] t = 6 -> "0.6"

MetricsBuilt == called.fn \in {"get_metrics", "metric"}

\* C1. get_metrics returns 5 * m functions, and the function at position
\* k * m + j (kinds outer, thresholds inner, in the given order) is named
\* "<kind_k>_<str(T[j])>".
C1_FactoryOrder ==
    MetricsBuilt =>
        LET m == Len(heatmap_threshold)
        IN  /\ Len(metrics) = 5 * m
            /\ \A k \in 0..4 : \A j \in 1..m :
                  metrics[k * m + j].name
                      = KindNames[k + 1] \o "_" \o ThresholdText(heatmap_threshold[j])

C1_Witness ==
    /\ called.fn = "get_metrics"
    /\ heatmap_threshold = <<6, 4>>
    /\ [p \in 1..Len(metrics) |-> metrics[p].name]
          = <<"iou_0.6", "iou_0.4", "precision_0.6", "precision_0.4",
              "recall_0.6", "recall_0.4", "iou_acc_0.6", "iou_acc_0.4",
              "iou_bbox_0.6", "iou_bbox_0.4">>

\* Base metric k (0..4) on the run's inputs with threshold t.
BaseMetric(k, t) ==
    CASE k = 0 -> iou(y_true, y_pred, t)
      [] k = 1 -> precision(y_true, y_pred, t)
      [] k = 2 -> recall(y_true, y_pred, t)
      [] k = 3 -> iou_acc(y_true, y_pred, t)
      [] k = 4 -> iou_bbox(y_true, y_pred, t, input_dim)

\* C2. The function at position k * m + j, called on (gt, pred), returns what
\* base metric kind_k returns on (gt, pred, T[j]) (iou_bbox with the
\* input_dim given to get_metrics): each is closed over its own threshold.
C2_ClosedOverOwnThreshold ==
    called.fn = "metric" =>
        LET m == Len(heatmap_threshold)
            k == (called.idx - 1) \div m
            j == ((called.idx - 1) % m) + 1
        IN  ret = BaseMetric(k, heatmap_threshold[j])

C2_Witness ==
    /\ called.fn = "metric"
    /\ heatmap_threshold = <<6, 4>>
    /\ input_dim = 2
    /\ called.idx = 9
    /\ ret = BaseMetric(4, 6)
    /\ ~ret.err
    /\ ret # BaseMetric(4, 4)

----------------------------------------------------------------------------
\* C7. format_results fails when names and scalars differ in length.
C7_FormatLengthMismatchFails ==
    (called.fn = "format_results" /\ Len(names) # Len(scalars)) => ret.err

\* C8. iou_bbox fails for every input of shape (batch, N) with
\* input_dim * input_dim # N.
C8_BboxShapeMismatchFails ==
    (called.fn = "iou_bbox" /\ SameShape /\ input_dim * input_dim # Len(y_pred[1]))
        => ret.err

\* C9. Every metric fails when the shapes of gt and pred differ.
C9_ShapeMismatchFails ==
    (MetricCall /\ ~SameShape) => ret.err

====
